---- MODULE Spec2Model ----
(***************************************************************************)
(* Model of tools/auto_git_sync.py: a filesystem watcher that debounces    *)
(* change events with a cancel-and-restart threading.Timer and, when the   *)
(* timer fires, runs git add / status / commit / push.                     *)
(*                                                                         *)
(* Paths are sequences of one-character strings, so that substring tests   *)
(* and os.path.abspath are computed rather than assumed.  Time is a        *)
(* discrete clock; a timer thread may run at any moment at or after its    *)
(* deadline (the operating system gives no upper bound on wake-up).        *)
(***************************************************************************)
EXTENDS Integers, Sequences, FiniteSets, TLC

\* ------------------------------------------------------------------ bounds
MaxTimers == 2      \* qualifying events (timers created) in a run
MaxTime == 4        \* last instant of the clock
MaxStartLag == 0    \* the clock at most when main() gets from observer.start() to its print

\* --------------------------------------------------------- program constants
Debounce == 2       \* --debounce default, debounce_seconds

Sep == "/"                                   \* os.sep
GitSeg == <<".", "g", "i", "t">>             \* '.git'
GitMarker == <<Sep>> \o GitSeg \o <<Sep>>    \* os.sep + '.git' + os.sep
Cwd == <<"/", "r">>                          \* os.getcwd(): the tool is run from the repository root
RepoPath == <<"/", "r">>                     \* repo_path = os.path.abspath(args.path)

\* ------------------------------------------------------------------- inputs
\* Raw event.src_path values delivered by the observer.
RawPaths ==
  { <<"/", "r", "/", "a">>,                                   \* /r/a
    <<"/", "r", "/", ".", "g", "i", "t", "/", "x">>,          \* /r/.git/x
    <<".", "g", "i", "t", "/", "x">>,                         \* .git/x     (relative)
    <<"/", "r", "/", ".", "g", "i", "t">>,                    \* /r/.git
    <<"/", "r", "/", ".", "g", "i", "t", "/", ".", ".", "/", "a">>,  \* /r/.git/../a
    <<"/", "r", "/", "a", "b">> }                             \* /r/ab

\* Values of --ignore (args.ignore) as a set of substrings: --ignore "" --ignore ab.
\* Without the flag the set is empty and /r/ab is handled as /r/a is.
IgnoreChoices == { { <<>>, <<"a", "b">> } }

\* Outcome of launching one git subprocess: exit status 0, a non-zero exit
\* status, or subprocess.run itself raising OSError (no git binary, cwd gone).
Results == {"ok", "fail", "oserror"}
\* What `git status --porcelain` wrote to stdout, after strip().
Outputs == {"empty", "changes"}

VARIABLES
  mainPc,        \* position of main(): "start", "error", "exit2", "init", "built",
                 \* "started", "watching", "stopped", "exited"
  isGitDir,      \* os.path.isdir(os.path.join(repo_path, '.git'))
  push,          \* AutoGitSync.push (args.push)
  ignore_paths,  \* DebouncedHandler.ignore_paths
  stdout_encoding,  \* sys.stdout.encoding, what print() encodes its text with
  now,           \* the clock, read from the moment the observer is started
  timer,         \* DebouncedHandler._timer: index into threads, 0 for None
  threads,       \* the threading.Timer objects created so far, in order
  syncs,         \* syncs[i]: the AutoGitSync.sync() run by threads[i]
  afterError,    \* history: the timers armed after some callback had raised
  mainOut,       \* what main() has done: exit status, text printed, git query run, ags.branch
  probe          \* an event handed to the filter alone, and the filter's decision

vars == <<mainPc, isGitDir, push, ignore_paths, stdout_encoding, now, timer, threads, syncs,
         afterError, mainOut, probe>>

\* ------------------------------------------------------------ path functions
\* sub in s  (Python substring test on str)
Contains(sub, s) ==
  \E k \in 0..(Len(s) - Len(sub)) : SubSeq(s, k + 1, k + Len(sub)) = sub

\* s.startswith(pre)
StartsWith(s, pre) ==
  Len(pre) <= Len(s) /\ SubSeq(s, 1, Len(pre)) = pre

\* path.split('/')
RECURSIVE SplitFrom(_, _, _)
SplitFrom(s, k, cur) ==
  IF k > Len(s) THEN <<cur>>
  ELSE IF s[k] = Sep THEN <<cur>> \o SplitFrom(s, k + 1, <<>>)
  ELSE SplitFrom(s, k + 1, Append(cur, s[k]))

Split(s) == SplitFrom(s, 1, <<>>)

\* '/'.join(comps)
RECURSIVE Join(_)
Join(comps) ==
  IF comps = <<>> THEN <<>>
  ELSE IF Len(comps) = 1 THEN comps[1]
  ELSE comps[1] \o <<Sep>> \o Join(Tail(comps))

DotDot == <<".", ".">>

\* the loop of posixpath.normpath over the components
RECURSIVE NormComps(_, _, _)
NormComps(comps, new, slashes) ==
  IF comps = <<>> THEN new
  ELSE LET c == Head(comps) IN
    IF c = <<>> \/ c = <<".">> THEN NormComps(Tail(comps), new, slashes)
    ELSE IF c # DotDot \/ (slashes = 0 /\ new = <<>>)
                       \/ (new # <<>> /\ new[Len(new)] = DotDot)
      THEN NormComps(Tail(comps), Append(new, c), slashes)
    ELSE IF new # <<>> THEN NormComps(Tail(comps), SubSeq(new, 1, Len(new) - 1), slashes)
    ELSE NormComps(Tail(comps), new, slashes)

\* posixpath.normpath
normpath(path) ==
  LET slashes == IF ~StartsWith(path, <<Sep>>) THEN 0
                 ELSE IF StartsWith(path, <<Sep, Sep>>) /\ ~StartsWith(path, <<Sep, Sep, Sep>>)
                   THEN 2 ELSE 1
      body == Join(NormComps(Split(path), <<>>, slashes))
      res == (IF slashes = 2 THEN <<Sep, Sep>> ELSE IF slashes = 1 THEN <<Sep>> ELSE <<>>) \o body
  IN IF res = <<>> THEN <<".">> ELSE res

\* os.path.abspath: join with the working directory unless absolute, then normalise
abspath(path) ==
  IF StartsWith(path, <<Sep>>) THEN normpath(path)
  ELSE normpath(Cwd \o <<Sep>> \o path)

\* a filter that forgets the --ignore substrings
Discards_gitonly(src, ignore) == Contains(GitMarker, src)

\* lines 40-44 on src = os.path.abspath(event.src_path): TRUE when the handler returns early
Discards(src, ignore) ==
  \/ Contains(GitMarker, src)
  \/ \E ip \in ignore : ip # <<>> /\ Contains(ip, src)

\* lines 38-44 for every event path and every --ignore setting, evaluated once:
\* TRUE when on_any_event returns before it reaches the lock
Filtered ==
  [ig \in IgnoreChoices |-> [p \in RawPaths |-> Discards(abspath(p), ig)]]

\* no event: neither source nor destination path
NoEvent == [src_path |-> <<>>, dest_path |-> <<>>]

\* no event handed to the filter alone
NoProbe == [event |-> NoEvent, decision |-> "none"]

\* event.src_path values given to the filter alone: the paths the observer
\* delivers in Spec and paths that only resemble the metadata directory
FilterPaths ==
  RawPaths \cup
  { <<"/", "r", "/", ".", "g", "i", "t", "x", "/", "a">>,            \* /r/.gitx/a
    <<"/", "r", "/", "s", "/", ".", "g", "i", "t", "/", "x">>,       \* /r/s/.git/x
    <<"a">>,                                                         \* a        (relative)
    <<"/", "r", "/", ".", "g", "i", "t", "/">> }                     \* /r/.git/

\* event.dest_path: absent unless the event is a move
DestPaths ==
  { <<>>,
    <<"/", "r", "/", ".", "g", "i", "t", "/", "x">>,                 \* /r/.git/x
    <<"/", "r", "/", "a", "b">> }                                    \* /r/ab

\* the watchdog events given to the filter alone
Events == [src_path : FilterPaths, dest_path : DestPaths]

\* values of --ignore given to the filter alone: none, "", ab, and both
IgnoreSets == { {}, { <<>> }, { <<"a", "b">> }, { <<>>, <<"a", "b">> } }

\* a handler that looks at the destination of a move
src_of_moved(event) ==
  IF event.dest_path # <<>> THEN event.dest_path ELSE event.src_path

\* line 38: the handler reads event.src_path and nothing else of the event
src_of(event) == event.src_path

\* ------------------------------------------------------------- Timer objects
\* threading.Timer(self.debounce_seconds, self._run) followed by start(), created
\* at time t.  finished is the Timer's Event; pc is the position of its thread:
\*   "wait"  in finished.wait(interval)
\*   "call"  the wait timed out and finished was seen unset; function not yet called
\*   "cb"    inside _run -> callback -> sync
\*   "exit"  the thread has ended
NewTimer(t) ==
  [started |-> t, finished |-> FALSE, pc |-> "wait", invokedAt |-> -1, err |-> "none"]

\* a sync() that has not begun
NoSync == [pc |-> "idle", cmds |-> <<>>, log |-> "none"]

\* a handler that re-arms without cancelling
cancel_noop(ths, t) == ths

\* `if self._timer: self._timer.cancel()`: cancel() sets the Timer's finished event
cancel(ths, t) ==
  IF t = 0 THEN ths ELSE [ths EXCEPT ![t].finished = TRUE]

\* a Timer whose wait never times out
Expired_never(th) == FALSE

\* the wait of a Timer started at th.started times out once the interval has elapsed
Expired(th) == now >= th.started + Debounce

\* every command run with check=False
Raises_never(check, res) == FALSE

\* subprocess.run(..., check=check) raises CalledProcessError on a non-zero exit
Raises(check, res) == check /\ res = "fail"

\* a sync that commits whatever status printed
NoChanges_never(out) == FALSE

\* `if not res.stdout.strip()`
NoChanges(out) == out = "empty"

\* a _run without try/except
run_except_none(exc) == "uncaught"

\* _run: `except Exception` catches whatever the callback raised and prints it
run_except(exc) == "caught"

\* ------------------------------------------------------------------ main()
\* the exit status of a process that has not ended
NoExit == -1

\* the exit status of a process ended by a KeyboardInterrupt nobody caught
Killed == -2

\* ags.branch before AutoGitSync is built
NoBranch == ""

\* main() before line 109: nothing printed, no exit, no git query
NotStarted == [status |-> NoExit, printed |-> <<>>, revparse |-> FALSE, branch |-> NoBranch]

\* print('Error: directory is not a git repository:', repo_path)
ErrorLine == <<"Error: directory is not a git repository:", " ">> \o RepoPath

\* args.remote (default)
Remote == "origin"

\* what `git rev-parse --abbrev-ref HEAD` prints in the repository the tool is
\* run on, after strip()
HeadBranch == "dev"

\* the outcome of the rev-parse child process in that repository: it exits 0
RevParseResults == {"ok"}

\* get_current_branch: the output of rev-parse, 'main' when check_output raised
get_current_branch(res, out) == IF res = "ok" THEN out ELSE "main"

\* print('Watching', repo_path, 'branch=', ags.branch, 'remote=', ags.remote)
WatchingLine(branch) ==
  <<"Watching", " ">> \o RepoPath \o <<" ", "branch=", " ", branch, " ", "remote=", " ", Remote>>

\* the choices of sys.stdout.encoding: a UTF-8 terminal, or an ASCII one
\* (PYTHONIOENCODING=ascii, a C locale without UTF-8 mode)
Encodings == {"utf-8", "ascii"}

\* the code point of the dash in cb's message 'Detected changes — committing...'
EmDash == 8212

\* print() can write a text holding code point c to a stdout of encoding enc;
\* otherwise it raises UnicodeEncodeError
Encodes(enc, c) == enc = "utf-8" \/ c < 128

\* a main() without the check of lines 110-112
main_check_skipped(isdir) ==
  [pc |-> "init", out |-> NotStarted]

\* lines 110-111: without <repo>/.git print the error, sys.exit(2) being next;
\* otherwise go on to build AutoGitSync
main_check(isdir) ==
  IF isdir
  THEN [pc |-> "init", out |-> NotStarted]
  ELSE [pc |-> "error", out |-> [NotStarted EXCEPT !.printed = ErrorLine]]

Init ==
  /\ mainPc = "start"
  /\ isGitDir \in BOOLEAN
  /\ push \in BOOLEAN
  /\ ignore_paths \in IgnoreChoices
  /\ stdout_encoding \in Encodings
  /\ now = 0
  /\ timer = 0
  /\ threads = <<>>
  /\ syncs = <<>>
  /\ afterError = {}
  /\ mainOut = NotStarted
  /\ probe = NoProbe

\* lines 109-111: check the metadata directory and, without it, print the error
main_start ==
  /\ mainPc = "start"
  /\ mainPc' = main_check(isGitDir).pc
  /\ mainOut' = main_check(isGitDir).out
  /\ UNCHANGED <<isGitDir, push, ignore_paths, stdout_encoding, now, timer, threads, syncs, afterError, probe>>

\* line 112: sys.exit(2) after the error line
main_exit2 ==
  /\ mainPc = "error"
  /\ mainPc' = "exit2"
  /\ mainOut' = [mainOut EXCEPT !.status = 2]
  /\ UNCHANGED <<isGitDir, push, ignore_paths, stdout_encoding, now, timer, threads, syncs, afterError, probe>>

\* line 114 with lines 65-70: AutoGitSync(...) with branch=None runs
\* `git rev-parse --abbrev-ref HEAD` as a child process and waits for it
main_construct(res) ==
  /\ mainPc = "init"
  /\ mainPc' = "built"
  /\ mainOut' = [mainOut EXCEPT !.revparse = TRUE,
                                !.branch = get_current_branch(res, HeadBranch)]
  /\ UNCHANGED <<isGitDir, push, ignore_paths, stdout_encoding, now, timer, threads, syncs, afterError, probe>>

\* lines 116-123: the handler and the observer are built and observer.start()
\* starts the thread that calls on_any_event.  At "started" the observer runs
\* and main() is between the return of observer.start() and the end of the
\* print of line 125: not yet inside the try block, or inside it.
main_observe ==
  /\ mainPc = "built"
  /\ mainPc' = "started"
  /\ UNCHANGED <<isGitDir, push, ignore_paths, stdout_encoding, now, timer, threads, syncs, afterError, mainOut, probe>>

\* lines 124-125: main() enters the try block and prints the 'Watching' line
\* (ASCII but for the path, which is ASCII here), then enters its wait loop
main_print ==
  /\ mainPc = "started"
  /\ mainPc' = "watching"
  /\ mainOut' = [mainOut EXCEPT !.printed = WatchingLine(mainOut.branch)]
  /\ UNCHANGED <<isGitDir, push, ignore_paths, stdout_encoding, now, timer, threads, syncs, afterError, probe>>

\* the observer thread is running and delivers events to the handler
ObserverRunning == mainPc \in {"started", "watching"}

\* The process runs until it has exited.
ProcessAlive == mainPc \notin {"exited", "exit2"}

\* main() is at a line outside the try block of lines 124-127, where nobody
\* catches a KeyboardInterrupt: before the check, between the error line and
\* sys.exit(2), in the rev-parse of line 114, in lines 116-123, after
\* observer.start() before the try is entered, and in observer.stop() and
\* observer.join() of lines 129-130
Uncaught == mainPc \in {"start", "error", "init", "built", "started", "stopped"}

\* A KeyboardInterrupt nobody catches: traceback, and the process ends killed
\* by the signal (status -2).  Whatever was printed stays printed; the
\* observer, when it was running, is not stopped and ends with the process,
\* and so do the Timer threads.  (When the threads are not daemon threads the
\* interpreter first waits for them; at "started" and "stopped" this step is
\* then the end of that wait, main()'s own position being unobservable.)
main_killed ==
  /\ Uncaught
  /\ mainPc' = "exited"
  /\ mainOut' = [mainOut EXCEPT !.status = Killed]
  /\ UNCHANGED <<isGitDir, push, ignore_paths, stdout_encoding, now, timer, threads, syncs, afterError, probe>>

\* a shutdown that also cancels the pending Timer
main_interrupt_cancels ==
  /\ ObserverRunning
  /\ mainPc' = "stopped"
  /\ threads' = cancel(threads, timer)
  /\ UNCHANGED <<isGitDir, push, ignore_paths, stdout_encoding, now, timer, syncs, afterError, mainOut, probe>>

\* lines 124-129: KeyboardInterrupt inside the try block, at the print or in
\* the wait loop; the except clause calls observer.stop().  At "stopped" the
\* observer delivers no event and main() is in observer.stop(), in
\* observer.join(), or has returned while the interpreter waits for Timer
\* threads that are not daemon threads.
main_interrupt ==
  /\ ObserverRunning
  /\ mainPc' = "stopped"
  /\ UNCHANGED <<isGitDir, push, ignore_paths, stdout_encoding, now, timer, threads, syncs, afterError, mainOut, probe>>

\* Line 130 and after: observer.join() returns, main() returns and the process
\* ends with status 0.  No Timer is cancelled or joined.  A Timer inherits the
\* daemon flag of the thread that created it, the observer's dispatch thread,
\* which the observer library sets and the repository does not.  With daemon
\* Timers the interpreter exits at once, whatever the Timer threads are doing:
\* a pending Timer never fires and a running sync is cut off.  With Timers
\* that are not daemon threads the interpreter waits for them and exits when
\* they have ended, or earlier when a second interrupt ends its wait.  The
\* exit can therefore come at any moment after the stop.
main_exit ==
  /\ mainPc = "stopped"
  /\ mainPc' = "exited"
  /\ mainOut' = [mainOut EXCEPT !.status = 0]
  /\ UNCHANGED <<isGitDir, push, ignore_paths, stdout_encoding, now, timer, threads, syncs, afterError, probe>>

\* --------------------------------------------------------- DebouncedHandler
\* on_any_event(event) with event.src_path = path, delivered by the observer thread.
\* The handler runs as one step: only the observer thread takes self._lock.
\* The model's bounds cap the number of timers created and leave every timer
\* room to reach its deadline before the clock ends.
on_any_event(path) ==
  /\ ObserverRunning
  /\ IF Filtered[ignore_paths][path]
       THEN UNCHANGED <<timer, threads, syncs, afterError>>
       ELSE /\ Len(threads) < MaxTimers
            /\ now + Debounce <= MaxTime
            /\ threads' = Append(cancel(threads, timer), NewTimer(now))
            /\ timer' = Len(threads) + 1
            /\ syncs' = Append(syncs, NoSync)
            /\ afterError' = IF \E i \in DOMAIN threads : threads[i].err # "none"
                               THEN afterError \cup {Len(threads) + 1} ELSE afterError
  /\ UNCHANGED <<mainPc, isGitDir, push, ignore_paths, stdout_encoding, now, mainOut, probe>>

\* The paths of the events the observer reports when a git command of sync()
\* writes its lock and index files: the file below the metadata directory and
\* the metadata directory itself, whose content changed
GitWrites ==
  { <<"/", "r", "/", ".", "g", "i", "t", "/", "x">>,          \* /r/.git/x
    <<"/", "r", "/", ".", "g", "i", "t">> }                    \* /r/.git

\* lines 77-85 seen by the observer of lines 121-123: sync i has run a git
\* command, the command wrote into the metadata directory of the watched tree,
\* and the observer hands the event to the handler
git_event(i, path) ==
  /\ \E k \in DOMAIN syncs[i].cmds : syncs[i].cmds[k].res # "oserror"
  /\ on_any_event(path)

\* lines 38-44 alone: the filter decides on the event held in probe, either to
\* return early ("discard") or to go on to the lock and arm a Timer ("arm")
filter_event ==
  /\ probe.decision = "none"
  /\ probe' = [probe EXCEPT !.decision =
                 IF Discards(abspath(src_of(probe.event)), ignore_paths)
                   THEN "discard" ELSE "arm"]
  /\ UNCHANGED <<mainPc, isGitDir, push, ignore_paths, stdout_encoding, now, timer, threads, syncs,
                 afterError, mainOut>>

\* a watching handler about to receive any one event under any --ignore setting
FilterInit ==
  /\ mainPc = "watching"
  /\ isGitDir = TRUE
  /\ push = TRUE
  /\ ignore_paths \in IgnoreSets
  /\ stdout_encoding = "utf-8"
  /\ now = 0
  /\ timer = 0
  /\ threads = <<>>
  /\ syncs = <<>>
  /\ afterError = {}
  /\ mainOut = [NotStarted EXCEPT !.revparse = TRUE, !.branch = HeadBranch,
                                 !.printed = WatchingLine(HeadBranch)]
  /\ probe \in [event : Events, decision : {"none"}]

FilterNext == filter_event

FilterSpec == FilterInit /\ [][FilterNext]_vars

\* ------------------------------------------------------------ Timer threads
\* Timer.run: finished.wait(interval) timed out and `not finished.is_set()` held
Timer_expire(i) ==
  /\ ProcessAlive
  /\ threads[i].pc = "wait"
  /\ ~threads[i].finished
  /\ Expired(threads[i])
  /\ threads' = [threads EXCEPT ![i].pc = "call"]
  /\ UNCHANGED <<mainPc, isGitDir, push, ignore_paths, stdout_encoding, now, timer, syncs, afterError, mainOut, probe>>

\* Timer.run: the wait was ended by cancel(); the function is not called
Timer_cancelled(i) ==
  /\ ProcessAlive
  /\ threads[i].pc = "wait"
  /\ threads[i].finished
  /\ threads' = [threads EXCEPT ![i].pc = "exit"]
  /\ UNCHANGED <<mainPc, isGitDir, push, ignore_paths, stdout_encoding, now, timer, syncs, afterError, mainOut, probe>>

\* Timer.run calls self.function = _run, which calls callback(): cb prints its
\* message (line 117) and enters ags.sync(), whose first command is
\* `git add -A`.  When stdout cannot encode the message, print raises
\* UnicodeEncodeError: sync() is not entered, _run catches the exception and
\* prints it, and the thread ends.
run_callback(i) ==
  /\ ProcessAlive
  /\ threads[i].pc = "call"
  /\ IF Encodes(stdout_encoding, EmDash)
       THEN /\ threads' = [threads EXCEPT ![i].pc = "cb", ![i].invokedAt = now]
            /\ syncs' = [syncs EXCEPT ![i].pc = "add"]
       ELSE /\ threads' = [threads EXCEPT ![i].pc = "exit", ![i].invokedAt = now,
                                          ![i].finished = TRUE,
                                          ![i].err = run_except("UnicodeEncodeError")]
            /\ UNCHANGED syncs
  /\ UNCHANGED <<mainPc, isGitDir, push, ignore_paths, stdout_encoding, now, timer, afterError, mainOut, probe>>

\* ------------------------------------------------------------ AutoGitSync
\* sync() returns or raises: control unwinds through cb and _run, and Timer.run
\* sets finished.  log is what sync printed last, err what _run did.
Return(i, cmds, log, err) ==
  /\ syncs' = [syncs EXCEPT ![i] = [pc |-> "ret", cmds |-> cmds, log |-> log]]
  /\ threads' = [threads EXCEPT ![i].pc = "exit", ![i].finished = TRUE, ![i].err = err]

\* a sync that runs a command again when it exited non-zero
Command_retry(i, cmd, check, res, out, next) ==
  LET cmds == Append(syncs[i].cmds, [cmd |-> cmd, res |-> res, out |-> out]) IN
    IF res = "oserror"
      THEN Return(i, cmds, "none", run_except(res))
    ELSE IF Raises(check, res)
      THEN /\ syncs' = [syncs EXCEPT ![i] = [pc |-> cmd, cmds |-> cmds, log |-> "none"]]
           /\ UNCHANGED threads
    ELSE IF next = "ret"
      THEN Return(i, cmds, "synced", "none")
    ELSE /\ syncs' = [syncs EXCEPT ![i] = [pc |-> next, cmds |-> cmds, log |-> "none"]]
         /\ UNCHANGED threads

\* one subprocess of sync(): cmd ran with outcome res; next is the position that
\* follows when nothing is raised
Command(i, cmd, check, res, out, next) ==
  LET cmds == Append(syncs[i].cmds, [cmd |-> cmd, res |-> res, out |-> out]) IN
    IF res = "oserror"
      THEN Return(i, cmds, "none", run_except(res))
    ELSE IF Raises(check, res)
      THEN Return(i, cmds, "failed", "none")
    ELSE IF next = "ret"
      THEN Return(i, cmds, "synced", "none")
    ELSE /\ syncs' = [syncs EXCEPT ![i] = [pc |-> next, cmds |-> cmds, log |-> "none"]]
         /\ UNCHANGED threads

\* line 77: run_git_command(["add", "-A"])
sync_add(i, res) ==
  /\ ProcessAlive
  /\ syncs[i].pc = "add"
  /\ Command(i, "add", TRUE, res, "none", "status")
  /\ UNCHANGED <<mainPc, isGitDir, push, ignore_paths, stdout_encoding, now, timer, afterError, mainOut, probe>>

\* lines 79-82: subprocess.run(["git", "status", "--porcelain"]) without check
sync_status(i, res, out) ==
  /\ ProcessAlive
  /\ syncs[i].pc = "status"
  /\ LET stdout == IF res = "oserror" THEN "none" ELSE out IN
       IF res # "oserror" /\ ~Raises(FALSE, res) /\ NoChanges(stdout)
         THEN Return(i, Append(syncs[i].cmds, [cmd |-> "status", res |-> res, out |-> stdout]),
                     "nochanges", "none")
         ELSE Command(i, "status", FALSE, res, stdout, "commit")
  /\ UNCHANGED <<mainPc, isGitDir, push, ignore_paths, stdout_encoding, now, timer, afterError, mainOut, probe>>

\* a sync that pushes whatever --no-push said
sync_commit_pushes(i, res) ==
  /\ ProcessAlive
  /\ syncs[i].pc = "commit"
  /\ Command(i, "commit", TRUE, res, "none", "push")
  /\ UNCHANGED <<mainPc, isGitDir, push, ignore_paths, stdout_encoding, now, timer, afterError, mainOut, probe>>

\* lines 83-84: run_git_command(["commit", "-m", msg]); then push or the success line
sync_commit(i, res) ==
  /\ ProcessAlive
  /\ syncs[i].pc = "commit"
  /\ Command(i, "commit", TRUE, res, "none", IF push THEN "push" ELSE "ret")
  /\ UNCHANGED <<mainPc, isGitDir, push, ignore_paths, stdout_encoding, now, timer, afterError, mainOut, probe>>

\* lines 85-86: run_git_command(["push", remote, branch]); then the success line
sync_push(i, res) ==
  /\ ProcessAlive
  /\ syncs[i].pc = "push"
  /\ Command(i, "push", TRUE, res, "none", "ret")
  /\ UNCHANGED <<mainPc, isGitDir, push, ignore_paths, stdout_encoding, now, timer, afterError, mainOut, probe>>

\* ------------------------------------------------------------------- clock
Tick ==
  /\ ProcessAlive
  /\ mainPc \notin {"start", "error", "init", "built"}
  /\ mainPc = "started" => now < MaxStartLag
  /\ now < MaxTime
  /\ now' = now + 1
  /\ UNCHANGED <<mainPc, isGitDir, push, ignore_paths, stdout_encoding, timer, threads, syncs, afterError, mainOut, probe>>

\* the steps of the thread of Timer i
ThreadStep(i) ==
  \/ Timer_expire(i)
  \/ Timer_cancelled(i)
  \/ run_callback(i)
  \/ \E res \in Results : sync_add(i, res)
  \/ \E res \in Results, out \in Outputs : sync_status(i, res, out)
  \/ \E res \in Results : sync_commit(i, res)
  \/ \E res \in Results : sync_push(i, res)

Next ==
  \/ main_start
  \/ main_exit2
  \/ \E res \in RevParseResults : main_construct(res)
  \/ main_observe
  \/ main_print
  \/ main_killed
  \/ main_interrupt
  \/ main_exit
  \/ \E path \in RawPaths : on_any_event(path)
  \/ \E i \in DOMAIN threads, path \in GitWrites : git_event(i, path)
  \/ \E i \in DOMAIN threads : Timer_expire(i)
  \/ \E i \in DOMAIN threads : Timer_cancelled(i)
  \/ \E i \in DOMAIN threads : run_callback(i)
  \/ \E i \in DOMAIN threads, res \in Results : sync_add(i, res)
  \/ \E i \in DOMAIN threads, res \in Results, out \in Outputs : sync_status(i, res, out)
  \/ \E i \in DOMAIN threads, res \in Results : sync_commit(i, res)
  \/ \E i \in DOMAIN threads, res \in Results : sync_push(i, res)
  \/ Tick

Spec == Init /\ [][Next]_vars

\* Time passes and the operating system runs the timer threads: while the clock
\* or some thread can take a step, one of them eventually does.  The observer
\* and the user are under no obligation to deliver events or to interrupt.
Progress == Tick \/ \E i \in DOMAIN threads : ThreadStep(i)

\* main() runs too: it gets from the check to sys.exit(2) or to its wait loop
\* and, once interrupted there, returns from observer.join(); the process then
\* ends, at once or when the Timer threads it waits for have ended.
MainStep ==
  \/ main_start
  \/ main_exit2
  \/ \E res \in RevParseResults : main_construct(res)
  \/ main_observe
  \/ main_print
  \/ main_exit

LiveSpec == Spec /\ WF_vars(Progress) /\ WF_vars(MainStep)

\* ==================================================================== claims
Timers == DOMAIN threads

\* the callback has been invoked by timer i
Invoked(i) == threads[i].invokedAt >= 0

\* the qualifying event after the one that armed timer i arrived less than
\* debounce_seconds later: the two events belong to the same burst
Superseded(i) ==
  i < Len(threads) /\ threads[i + 1].started - threads[i].started < Debounce

\* timer i is a Pending Trigger: started, not cancelled, callback not yet invoked
Armed(i) == threads[i].pc \in {"wait", "call"} /\ ~threads[i].finished

\* the names of the commands sync i has run, in order
CmdNames(i) == [k \in DOMAIN syncs[i].cmds |-> syncs[i].cmds[k].cmd]

IsPrefix(a, b) == Len(a) <= Len(b) /\ SubSeq(b, 1, Len(a)) = a

\* ------------------------------------------------------------------------ C1
\* C1 as stated: every burst (events less than debounce_seconds apart, the last
\* of them followed by no event within that window) causes exactly one
\* invocation of the callback: no timer of a non-final event invokes it, the
\* invocation comes no sooner than debounce_seconds after the final event, and
\* once the final event's timer thread has ended it has invoked the callback.
C1_BurstExactlyOnce ==
  \A i \in Timers :
    /\ Superseded(i) => ~Invoked(i)
    /\ Invoked(i) => threads[i].invokedAt >= threads[i].started + Debounce
    /\ (~Superseded(i) /\ threads[i].pc = "exit") => Invoked(i)

\* C1 amended: a burst causes at most one invocation, by the timer of its final
\* event and no sooner than debounce_seconds after that event; the timers of the
\* other events of the burst never invoke the callback.  The burst causes exactly
\* one invocation unless a later qualifying event cancelled the final timer
\* before it fired, or the process ended first: a timer whose thread ran to its
\* end without invoking was followed by another qualifying event.
C1_BurstAtMostOnce ==
  \A i \in Timers :
    /\ Superseded(i) => ~Invoked(i)
    /\ Invoked(i) => threads[i].invokedAt >= threads[i].started + Debounce
    /\ (threads[i].pc = "exit" /\ ~Invoked(i)) => i < Len(threads)

\* a burst of two events: the first timer ended silently, the second invoked
C1_Witness ==
  /\ Len(threads) = 2
  /\ Superseded(1) /\ threads[1].pc = "exit" /\ ~Invoked(1)
  /\ Invoked(2)

\* ------------------------------------------------------------------------ C2
\* the absolute path lies below the repository's metadata directory
WithinMetadataDir(src) == StartsWith(src, RepoPath \o GitMarker)

\* the absolute path contains a configured ignore substring (the empty string
\* is no substring to match: see the guard `if ip and ...`)
MatchesIgnore(src, ignore) ==
  \E ip \in ignore : Len(ip) > 0 /\ Contains(ip, src)

\* the event paths C2 speaks of, for each --ignore setting
DiscardCases ==
  [ig \in IgnoreChoices |->
     {p \in RawPaths : WithinMetadataDir(abspath(p)) \/ MatchesIgnore(abspath(p), ig)}]

\* C2: an on_any_event step for an event whose absolute path lies within the
\* metadata directory or contains a configured ignore substring changes neither
\* self._timer nor any Timer: nothing is armed, cancelled or restarted.
C2_DiscardedEventKeepsTrigger ==
  [][\A p \in DiscardCases[ignore_paths] :
       on_any_event(p) => UNCHANGED <<timer, threads>>]_vars

\* a trigger armed earlier is pending while the observer delivers an event of
\* either kind, which the handler takes and returns from with nothing changed
C2_Witness ==
  /\ timer # 0 /\ Armed(timer) /\ threads[timer].started < now
  /\ \E p \in DiscardCases[ignore_paths] :
        WithinMetadataDir(abspath(p)) /\ ENABLED on_any_event(p)
  /\ \E p \in DiscardCases[ignore_paths] :
        ~WithinMetadataDir(abspath(p)) /\ ENABLED on_any_event(p)

\* ------------------------------------------------------------------------ C3
\* C3: with push enabled a sync() runs its commands in the order add, status,
\* commit, push, each at most once; a stage, commit or push that did not succeed
\* is the last command of that sync(); and a sync() that found changes and whose
\* commands all succeeded has run all four.
C3_OrderAndStopOnFailure ==
  push =>
    \A i \in DOMAIN syncs :
      LET cmds == syncs[i].cmds IN
        /\ IsPrefix(CmdNames(i), <<"add", "status", "commit", "push">>)
        /\ \A k \in DOMAIN cmds :
             (cmds[k].cmd # "status" /\ cmds[k].res # "ok") => k = Len(cmds)
        /\ ( /\ syncs[i].pc = "ret"
             /\ \A k \in DOMAIN cmds : cmds[k].res = "ok"
             /\ \E k \in DOMAIN cmds : cmds[k].out = "changes" )
           => CmdNames(i) = <<"add", "status", "commit", "push">>

\* with push enabled, one sync ran all four commands and another stopped at a failed commit
C3_Witness ==
  /\ push
  /\ \E i, j \in DOMAIN syncs :
       /\ CmdNames(i) = <<"add", "status", "commit", "push">>
       /\ syncs[i].log = "synced"
       /\ syncs[j].pc = "ret"
       /\ CmdNames(j) = <<"add", "status", "commit">>
       /\ syncs[j].cmds[3].res = "fail"

\* ------------------------------------------------------------------------ C4
\* C4: a sync() whose status query printed nothing has returned after printing
\* "No changes to commit.", and the commands it ran are add and status only.
C4_NoChangesNoCommit ==
  \A i \in DOMAIN syncs :
    (\E k \in DOMAIN syncs[i].cmds :
        syncs[i].cmds[k].cmd = "status" /\ syncs[i].cmds[k].out = "empty")
      => /\ syncs[i].pc = "ret"
         /\ syncs[i].log = "nochanges"
         /\ CmdNames(i) = <<"add", "status">>
         /\ syncs[i].cmds[1].res = "ok"

\* a sync whose status query succeeded and printed nothing
C4_Witness ==
  \E i \in DOMAIN syncs :
    /\ Len(syncs[i].cmds) = 2
    /\ syncs[i].cmds[2] = [cmd |-> "status", res |-> "ok", out |-> "empty"]
    /\ syncs[i].log = "nochanges"

\* ------------------------------------------------------------------------ C5
\* C5 as stated: every command of a sync() that exits non-zero, the status query
\* included, is the last command of that sync(), which logs the failure and
\* returns; it is never followed by "no changes" or by the success line.
C5_NonZeroExitIsFailure ==
  \A i \in DOMAIN syncs :
    \A k \in DOMAIN syncs[i].cmds :
      syncs[i].cmds[k].res = "fail"
        => /\ k = Len(syncs[i].cmds)
           /\ syncs[i].pc = "ret"
           /\ syncs[i].log = "failed"

\* ------------------------------------------------------------------------ C6
\* C6 as stated: at most one sync() is in progress in every reachable state.
C6_AtMostOneSyncRunning ==
  Cardinality({i \in Timers : threads[i].pc = "cb"}) <= 1

\* C6 amended: two sync() in progress at the same time were triggered by
\* qualifying events at least debounce_seconds apart; within one debounce window
\* at most one sync() runs.
C6_OverlapOnlyAcrossWindows ==
  \A i, j \in Timers :
    (i < j /\ threads[i].pc = "cb" /\ threads[j].pc = "cb")
      => threads[j].started - threads[i].started >= Debounce

\* a second sync() has started while an earlier one is still in the middle of its commands
C6_Witness ==
  \E i, j \in Timers :
    /\ i < j
    /\ threads[i].pc = "cb" /\ syncs[i].pc \in {"status", "commit", "push"}
    /\ threads[j].pc = "cb"

\* ------------------------------------------------------------------------ C7
\* C7 as stated: a timer that has been cancelled without having invoked the
\* callback never invokes it afterwards.
C7_CancelledNeverInvokes ==
  [][\A i \in Timers :
       (threads[i].finished /\ ~Invoked(i)) => threads'[i].invokedAt < 0]_vars

\* ------------------------------------------------------------------------ C8
\* C8: at most one timer is a Pending Trigger, and it is the one self._timer holds.
C8_AtMostOneArmed ==
  /\ Cardinality({i \in Timers : Armed(i)}) <= 1
  /\ \A i \in Timers : Armed(i) => timer = i

\* a second qualifying event: the first timer is cancelled and still waiting, the second is armed
C8_Witness ==
  /\ Len(threads) = 2
  /\ threads[1].pc = "wait" /\ threads[1].finished
  /\ Armed(2)

\* ------------------------------------------------------------------------ C9
\* the timer armed by the last qualifying event so far (0 when there is none)
LastTimer == Len(threads)

\* C9 as stated: once qualifying events have stopped arriving (in every run
\* they do), the timer armed last eventually invokes the callback, which a
\* Timer does once; and a timer whose event was followed by another qualifying
\* event less than debounce_seconds later never invokes the callback.
C9_LastTriggerFires ==
  /\ <>[](LastTimer = 0 \/ Invoked(LastTimer))
  /\ [](\A i \in Timers : Superseded(i) => ~Invoked(i))

\* C9 amended: once qualifying events have stopped arriving, the timer armed
\* last eventually invokes the callback unless the process has ended before it
\* fired (after an interrupt main() returns without waiting for the Timer, whose
\* daemon thread ends with the process); and a timer whose event was followed
\* by another qualifying event less than debounce_seconds later never invokes.
C9_LastTriggerFiresWhileRunning ==
  /\ <>[](LastTimer = 0 \/ Invoked(LastTimer) \/ ~ProcessAlive)
  /\ [](\A i \in Timers : Superseded(i) => ~Invoked(i))

\* events have stopped, the superseded timer stayed silent and the last one has fired
C9_Witness ==
  /\ mainPc = "stopped"
  /\ Len(threads) = 2
  /\ Superseded(1) /\ ~Invoked(1)
  /\ Invoked(2) /\ threads[2].pc = "exit"

\* ----------------------------------------------------------------------- C10
\* C10 as stated: an exception raised under the callback is caught by _run,
\* never left uncaught; and when the last qualifying event came after a
\* callback had raised, the timer it armed still invokes the callback eventually.
C10_CallbackErrorContained ==
  /\ [](\A i \in Timers : threads[i].err # "uncaught")
  /\ <>[](LastTimer \in afterError => Invoked(LastTimer))

\* C10 amended: an exception raised under the callback is caught by _run, never
\* left uncaught; and when the last qualifying event came after a callback had
\* raised, the timer it armed still invokes the callback eventually, unless
\* the process has ended before that timer fired.
C10_CallbackErrorContainedWhileRunning ==
  /\ [](\A i \in Timers : threads[i].err # "uncaught")
  /\ <>[](LastTimer \in afterError => (Invoked(LastTimer) \/ ~ProcessAlive))

\* timer 1's callback raised and was caught; timer 2, armed after that, invoked the callback
C10_Witness ==
  /\ Len(threads) = 2
  /\ threads[1].err = "caught"
  /\ 2 \in afterError
  /\ Invoked(2)

\* ----------------------------------------------------------------------- C11
\* the status query of sync i returned and its output showed pending changes
SawChanges(i) ==
  Len(syncs[i].cmds) >= 2 /\ syncs[i].cmds[2].cmd = "status" /\ syncs[i].cmds[2].out = "changes"

\* C11: with push disabled no sync ever runs or is about to run `git push`,
\* whatever stage, status and commit returned; and a sync whose status query
\* showed pending changes still goes on to the commit.
C11_NoPushWhenDisabled ==
  ~push =>
    \A i \in Timers :
      /\ syncs[i].pc # "push"
      /\ \A k \in DOMAIN syncs[i].cmds : syncs[i].cmds[k].cmd # "push"
      /\ SawChanges(i) =>
            \/ syncs[i].pc = "commit"
            \/ Len(syncs[i].cmds) >= 3 /\ syncs[i].cmds[3].cmd = "commit"

\* push is disabled and a sync has staged, seen changes, committed and reported success
C11_Witness ==
  /\ ~push
  /\ \E i \in Timers :
        /\ CmdNames(i) = <<"add", "status", "commit">>
        /\ syncs[i].cmds[3].res = "ok"
        /\ syncs[i].log = "synced"

\* ----------------------------------------------------------------------- C12
\* C12: when the target path has no metadata directory, main() goes from its
\* check nowhere but to the error line, which contains the path, and from
\* there to sys.exit(2): a process that has ended has ended with status 2,
\* the error line printed, unless a KeyboardInterrupt killed it before
\* sys.exit(2) was reached (before the check with nothing printed, or after
\* the print with the error line printed).  Whichever way it ends, and at
\* every moment before, no AutoGitSync was built (so no git query ran), no
\* observer was started, hence no Timer exists and no sync has run.
C12_NotARepositoryExits2 ==
  ~isGitDir =>
    /\ mainPc \in {"start", "error", "exit2", "exited"}
    /\ mainPc = "start" => (mainOut.status = NoExit /\ mainOut.printed = <<>>)
    /\ mainPc = "error" => (mainOut.status = NoExit /\ mainOut.printed = ErrorLine)
    /\ mainPc = "exit2" => (mainOut.status = 2 /\ mainOut.printed = ErrorLine)
    /\ mainPc = "exited" => (mainOut.status = Killed /\ mainOut.printed \in {<<>>, ErrorLine})
    /\ Contains(RepoPath, ErrorLine)
    /\ ~mainOut.revparse /\ mainOut.branch = NoBranch
    /\ ~ObserverRunning /\ timer = 0 /\ threads = <<>> /\ syncs = <<>>

\* main() has left with status 2 over a path without metadata directory
C12_Witness ==
  /\ ~isGitDir
  /\ mainPc = "exit2"
  /\ mainOut.status = 2
  /\ mainOut.printed = ErrorLine

\* ----------------------------------------------------------------------- C13
\* in sync i the commit succeeded and the push after it exited non-zero
CommittedNotPushed(i) ==
  /\ Len(syncs[i].cmds) >= 4
  /\ syncs[i].cmds[3].cmd = "commit" /\ syncs[i].cmds[3].res = "ok"
  /\ syncs[i].cmds[4].cmd = "push" /\ syncs[i].cmds[4].res = "fail"

\* the status query of sync i returned and printed nothing: the working tree is clean
FoundClean(i) ==
  Len(syncs[i].cmds) >= 2 /\ syncs[i].cmds[2].cmd = "status" /\ syncs[i].cmds[2].out = "empty"

\* C13: a sync whose commit succeeded and whose push failed ends with that
\* push: it logs the failure and runs nothing more, neither a second push nor a
\* command that would undo the commit.  A sync triggered after it that finds
\* the working tree clean runs stage and status only, no commit and no push;
\* and whichever sync runs a push has seen pending changes and committed them
\* first, so the commit left unpushed goes out only with a later sync that
\* found new changes.
C13_FailedPushNotRetried ==
  /\ \A i \in Timers :
        CommittedNotPushed(i) =>
          /\ CmdNames(i) = <<"add", "status", "commit", "push">>
          /\ syncs[i].pc = "ret" /\ syncs[i].log = "failed"
  /\ \A i \in Timers : \A j \in Timers :
        (i < j /\ CommittedNotPushed(i) /\ FoundClean(j)) =>
          /\ CmdNames(j) = <<"add", "status">>
          /\ syncs[j].pc = "ret"
  /\ \A j \in Timers : \A k \in DOMAIN syncs[j].cmds :
        syncs[j].cmds[k].cmd = "push" =>
          /\ k = 4 /\ SawChanges(j)
          /\ syncs[j].cmds[3].cmd = "commit" /\ syncs[j].cmds[3].res = "ok"

\* sync 1 committed and failed to push; sync 2, triggered later, found the tree
\* clean and returned after the status query
C13_Witness ==
  /\ Len(threads) = 2
  /\ CommittedNotPushed(1) /\ syncs[1].log = "failed"
  /\ threads[1].invokedAt < threads[2].invokedAt
  /\ FoundClean(2) /\ syncs[2].log = "nochanges"

\* ----------------------------------------------------------------------- C16
\* main() has been interrupted: the observer is stopped or the process has ended
ShutDown == mainPc \in {"stopped", "exited"}

\* C16: once main() has been interrupted and has stopped the observer no event
\* arms a Timer any more; a Timer that is armed when main() is interrupted is
\* never cancelled by the shutdown (it stays armed unless it invokes the
\* callback); while the observer is stopped and the process has not yet ended,
\* such a Timer can still fire: once its wait has timed out the step that
\* invokes the callback, and with it one sync, is enabled; and main() waits for
\* no sync: the interrupt and the return that follows it are enabled whatever
\* the timer threads are doing.
C16_ShutdownLeavesTrigger ==
  /\ [][ShutDown => (timer' = timer /\ Len(threads') = Len(threads))]_vars
  /\ [][ShutDown' => \A i \in Timers : Armed(i) => (Armed(i)' \/ Invoked(i)')]_vars
  /\ [](mainPc = "stopped" =>
          \A i \in Timers :
            /\ (Armed(i) /\ threads[i].pc = "wait" /\ Expired(threads[i])) => ENABLED Timer_expire(i)
            /\ (Armed(i) /\ threads[i].pc = "call") => ENABLED run_callback(i))
  /\ [](ObserverRunning => ENABLED main_interrupt)
  /\ [](mainPc = "stopped" => ENABLED main_exit)

\* the observer has been stopped while sync 1 was still running, and Timer 2,
\* armed before the interrupt, has passed its wait and is about to invoke the
\* callback
C16_Witness ==
  /\ mainPc = "stopped"
  /\ Len(threads) = 2
  /\ threads[1].pc = "cb" /\ syncs[1].pc = "commit"
  /\ Armed(2) /\ timer = 2 /\ threads[2].pc = "call"

\* ----------------------------------------------------------------------- C17
\* sync i ran the command cmd and it exited 0
StepOk(i, cmd) ==
  \E k \in DOMAIN syncs[i].cmds : syncs[i].cmds[k].cmd = cmd /\ syncs[i].cmds[k].res = "ok"

\* the steps whose failure ends a sync: stage, commit and push
Steps == {"add", "commit", "push"}

\* C17: a sync has logged the success line exactly when stage and commit
\* succeeded and, with push enabled, push succeeded too; then none of its steps
\* failed.  The three outcomes exclude each other: "no changes" is logged by a
\* sync that ran stage and status only and saw a clean tree, the failure line
\* by a sync whose last command was a step that exited non-zero.
C17_SuccessLoggedIffAllStepsOk ==
  \A i \in Timers :
    /\ syncs[i].log = "synced" <=>
          (StepOk(i, "add") /\ StepOk(i, "commit") /\ (push => StepOk(i, "push")))
    /\ syncs[i].log = "synced" =>
          \A k \in DOMAIN syncs[i].cmds :
            syncs[i].cmds[k].cmd \in Steps => syncs[i].cmds[k].res = "ok"
    /\ syncs[i].log = "nochanges" =>
          (CmdNames(i) = <<"add", "status">> /\ FoundClean(i))
    /\ syncs[i].log = "failed" =>
          LET last == syncs[i].cmds[Len(syncs[i].cmds)] IN
            last.cmd \in Steps /\ last.res = "fail"
    /\ syncs[i].log # "none" => syncs[i].pc = "ret"

\* with push enabled one sync logged success after three successful steps and
\* another logged the failure of its commit
C17_Witness ==
  /\ push
  /\ \E i \in Timers :
        /\ syncs[i].log = "synced"
        /\ StepOk(i, "add") /\ StepOk(i, "commit") /\ StepOk(i, "push")
  /\ \E j \in Timers :
        /\ syncs[j].log = "failed"
        /\ CmdNames(j) = <<"add", "status", "commit">>

\* ----------------------------------------------------------------------- C15
\* s.endswith(suf)
EndsWith(s, suf) ==
  Len(suf) <= Len(s) /\ SubSeq(s, Len(s) - Len(suf) + 1, Len(s)) = suf

\* C15: the filter discards an event exactly when the absolute form of its
\* source path contains os.sep + '.git' + os.sep or contains a non-empty
\* configured ignore substring; nothing else of the event or the configuration
\* enters the decision.  In particular a source path that is a metadata
\* directory itself (ending in '.git', no separator after it) is not discarded
\* for that, whatever the destination path and whether or not the empty string
\* is among the ignore substrings.
C15_FilterBySourcePathOnly ==
  probe.decision # "none" =>
    LET src == abspath(probe.event.src_path) IN
      /\ probe.decision = "discard" <=>
            (Contains(GitMarker, src) \/ MatchesIgnore(src, ignore_paths))
      /\ (EndsWith(src, <<Sep>> \o GitSeg) /\ ~Contains(GitMarker, src)
            /\ ~MatchesIgnore(src, ignore_paths)) => probe.decision = "arm"

\* a move of the metadata directory itself to a path below it, with the empty
\* string among the ignore substrings, has passed the filter
C15_Witness ==
  /\ probe.decision = "arm"
  /\ probe.event.src_path = RepoPath \o <<Sep>> \o GitSeg
  /\ probe.event.dest_path = RepoPath \o GitMarker \o <<"x">>
  /\ <<>> \in ignore_paths

\* ----------------------------------------------------------------------- C14
\* C14 as stated: once the user's events have ceased, the events that sync()'s
\* own commands cause on the metadata directory or below it leave the system
\* settled: such an event arms no Timer and cancels none, so no sync is the
\* cause of a further sync and, the last user-caused trigger having fired and
\* its sync having returned, no trigger is armed and no sync runs ever after.
C14_SyncCausesNoSync ==
  [][\A i \in Timers : \A p \in GitWrites :
       git_event(i, p) => UNCHANGED <<timer, threads>>]_vars

====
